---- MODULE Spec2Model ----
(***************************************************************************)
(* Model of axelerate/networks/common_utils/fit.py: the train() wrapper    *)
(* around a Keras model (session directory, layer freezing, metric         *)
(* resolution, compile, callback assembly, fit with interrupt handling)    *)
(* and the elapsed-time printer _print_time().                             *)
(*                                                                         *)
(* train() is one sequential call; `pc` is the position inside it.  The    *)
(* framework calls (os.makedirs, model.compile, model.fit, model.save,     *)
(* shutil.copytree) are modelled by their documented effect on the file    *)
(* system and by the exceptions the wrapper's control flow distinguishes.  *)
(***************************************************************************)
EXTENDS Integers, Sequences, FiniteSets, TLC

(* ------------------------------ bounds --------------------------------- *)
MaxLayers == 3
MaxSteps == 10
MaxEpoch == 5
TicksPerSecond == 4
MaxSeconds == 130

(* -------------------------- Python values ------------------------------ *)
\* Python values are tagged so that None, "" and a dict stay distinct.
PyNone == [t |-> "NoneType"]
PyStr(s) == [t |-> "str", v |-> s]
PyDict(f) == [t |-> "dict", v |-> f]
Unbound == [t |-> "unbound"]

\* bool(x) for the value kinds train() tests: None, str, dict.
Truthy(x) ==
    CASE x.t = "NoneType" -> FALSE
      [] x.t = "str" -> x.v # ""
      [] x.t = "dict" -> DOMAIN x.v # {}
      [] OTHER -> TRUE

Min(a, b) == IF a < b THEN a ELSE b

(* ------------------------------ inputs --------------------------------- *)
LayerNameSet == {"conv", "dense"}
ModelName == "net"
ProjectFolder == "project"
TrainDate == "2020-01-01_00-00-00"
MetricSet == {"val_loss", "val_accuracy"}

Layer == [name : LayerNameSet, trainable : BOOLEAN]
Models == UNION {[1..k -> Layer] : k \in 0..MaxLayers}

FirstTrainableArgs ==
    {PyNone, PyStr("")} \cup {PyStr(n) : n \in LayerNameSet \cup {"flatten"}}

LossRecord == [name |-> "loss", best_value |-> "min"]
AccRecord == [name |-> "accuracy", best_value |-> "max"]
MetricsDictArgs ==
    { PyNone,
      PyDict(<<>>),
      PyDict([m \in {"val_loss"} |-> LossRecord]),
      PyDict([m \in MetricSet |-> IF m = "val_loss" THEN LossRecord ELSE AccRecord]) }

FitOutcomes == {"ok", "KeyboardInterrupt", "RuntimeError"}
ElapsedSamples == {45 * TicksPerSecond, 60 * TicksPerSecond, 125 * TicksPerSecond}

(* ------------------------------ paths ---------------------------------- *)
PathJoin(a, b) == a \o "/" \o b
SessionPath == PathJoin(ProjectFolder, TrainDate)
Basename(m) == ModelName \o "_best_" \o m
SaveWeightsName(m) == PathJoin(SessionPath, Basename(m) \o ".h5")
SaveWeightsNameCtrlc(m) == PathJoin(SessionPath, Basename(m) \o "_ctrlc.h5")
LogsDir == "logs"
SessionLogs == PathJoin(SessionPath, "logs")

(* --------------------------- layer freezing ---------------------------- *)
LayerNames(ls) == [i \in 1..Len(ls) |-> PyStr(ls[i].name)]

InNames(x, names) == \E i \in 1..Len(names) : names[i] = x

\* Index at which the loop over model.layers breaks.
BreakIndex(ls, ftl) ==
    CHOOSE i \in 1..Len(ls) :
        /\ PyStr(ls[i].name) = ftl
        /\ \A j \in 1..(i - 1) : PyStr(ls[j].name) # ftl

FreezeStopsAfterMatch(ls, ftl) ==
    [i \in 1..Len(ls) |->
        IF i <= BreakIndex(ls, ftl)
        THEN [ls[i] EXCEPT !.trainable = FALSE]
        ELSE ls[i]]

\* The loop of lines 51-55: every layer before the break has trainable := False.
FreezeLayers(ls, ftl) ==
    [i \in 1..Len(ls) |->
        IF i < BreakIndex(ls, ftl)
        THEN [ls[i] EXCEPT !.trainable = FALSE]
        ELSE ls[i]]

(* ------------------------ warm-up cosine schedule ---------------------- *)
TotalStepsEpochsOnly(s, n) == n

TotalSteps(s, n) == s * n

WarmupStepsNoClamp(s, n) == s * 3

WarmupSteps(s, n) == s * Min(3, n - 1)

(* --------------------------- _print_time ------------------------------- *)
\* process_time is a float; it is modelled as a whole number of ticks,
\* TicksPerSecond ticks to the second, so that int() really truncates.
Digit(d) == CASE d = 0 -> "0" [] d = 1 -> "1" [] d = 2 -> "2" [] d = 3 -> "3"
              [] d = 4 -> "4" [] d = 5 -> "5" [] d = 6 -> "6" [] d = 7 -> "7"
              [] d = 8 -> "8" [] d = 9 -> "9"

RECURSIVE FormatD(_)
\* "{:d}".format(n) for n >= 0
FormatD(n) == IF n < 10 THEN Digit(n) ELSE FormatD(n \div 10) \o Digit(n % 10)

\* int(process_time) and int(process_time/60) for process_time >= 0
IntSeconds(ticks) == ticks \div TicksPerSecond
IntMinutes(ticks) == ticks \div (60 * TicksPerSecond)

PrintTimeInclusive(ticks) ==
    IF ticks <= 60 * TicksPerSecond
    THEN FormatD(IntSeconds(ticks)) \o "-seconds to train"
    ELSE FormatD(IntMinutes(ticks)) \o "-mins to train"

PrintTime(ticks) ==
    IF ticks < 60 * TicksPerSecond
    THEN FormatD(IntSeconds(ticks)) \o "-seconds to train"
    ELSE FormatD(IntMinutes(ticks)) \o "-mins to train"

(* ------------------------------ state ---------------------------------- *)
VARIABLES
    pc,                     \* position inside train(); "idle" before the call
    layers,                 \* model.layers: sequence of [name, trainable]
    layers0,                \* model.layers as they were when train() was called
    fs,                     \* paths that exist on the file system
    first_trainable_layer,  \* argument
    metrics_dict,           \* argument
    metric,                 \* argument
    nb_epoch,               \* argument, first read at line 102
    steps,                  \* len(train_batch_gen), first read at line 102
    best_value,             \* local variable, Unbound until line 72 assigns it
    metrics,                \* local variable, Unbound until line 73 or 75
    compiled,               \* metrics= passed to model.compile, Unbound before
    schedule,               \* [total_steps, warmup_steps] of the scheduler
    fit_raised,             \* what model.fit raised ("" while it has not)
    calls,                  \* framework calls made so far, in order
    phases,                 \* phases of the call entered so far, in order
    stdout,                 \* the line _print_time printed ("" before)
    ret,                    \* returned weights path ("" while none)
    exc,                    \* exception leaving train() ("" while none)
    pt_in,                  \* _print_time called on its own: argument in ticks
    pt_out                  \* ... and the line it printed ("" before the call)

vars == <<pc, layers, layers0, fs, first_trainable_layer, metrics_dict, metric,
          nb_epoch, steps, best_value, metrics, compiled, schedule, fit_raised,
          calls, phases, stdout, ret, exc, pt_in, pt_out>>

NoSchedule == [total_steps |-> -1, warmup_steps |-> -1]

Locals0 ==
    /\ first_trainable_layer = PyNone
    /\ metrics_dict = PyNone
    /\ metric = "val_loss"
    /\ nb_epoch = -1
    /\ steps = -1
    /\ best_value = Unbound
    /\ metrics = Unbound
    /\ compiled = Unbound
    /\ schedule = NoSchedule
    /\ fit_raised = ""
    /\ calls = <<>>
    /\ phases = <<>>
    /\ stdout = ""
    /\ ret = ""
    /\ exc = ""

Init ==
    /\ pc = "idle"
    /\ layers \in Models
    /\ layers0 = layers
    /\ fs \in SUBSET {SessionPath, LogsDir}
    /\ Locals0
    /\ pt_in = 0
    /\ pt_out = ""

\* An exception leaves train(): nothing after the raising line runs.
Raise(e) ==
    /\ pc' = "raised"
    /\ exc' = e

(* ------------------------------ train() -------------------------------- *)
\* The caller binds the arguments (lines 13-22).
Call ==
    /\ pc = "idle"
    /\ \E ftl \in FirstTrainableArgs, md \in MetricsDictArgs, m \in MetricSet :
        /\ first_trainable_layer' = ftl
        /\ metrics_dict' = md
        /\ metric' = m
    /\ pc' = "setup"
    /\ UNCHANGED <<layers, layers0, fs, nb_epoch, steps, best_value, metrics,
                   compiled, schedule, fit_raised, calls, phases, stdout, ret,
                   exc, pt_in, pt_out>>

\* Lines 37-45: os.makedirs raises when the session directory exists.
Setup ==
    /\ pc = "setup"
    /\ phases' = Append(phases, "Setup")
    /\ calls' = Append(calls, "makedirs")
    /\ IF SessionPath \in fs
       THEN /\ Raise("FileExistsError")
            /\ UNCHANGED fs
       ELSE /\ fs' = fs \cup {SessionPath}
            /\ pc' = "freeze"
            /\ UNCHANGED exc
    /\ UNCHANGED <<layers, layers0, first_trainable_layer, metrics_dict, metric,
                   nb_epoch, steps, best_value, metrics, compiled, schedule,
                   fit_raised, stdout, ret, pt_in, pt_out>>

\* Line 58: the else branch, a truthy name that no layer has.
UnknownLayerNeverRaises(ls, ftl) == FALSE

UnknownLayer(ls, ftl) == ~InNames(ftl, LayerNames(ls)) /\ Truthy(ftl)

FrozenAllWhenNoName(ls, ftl) ==
    IF InNames(ftl, LayerNames(ls))
    THEN FreezeLayers(ls, ftl)
    ELSE [i \in 1..Len(ls) |-> [ls[i] EXCEPT !.trainable = FALSE]]

\* model.layers after lines 50-57 when they do not raise.
Frozen(ls, ftl) ==
    IF InNames(ftl, LayerNames(ls))
    THEN FreezeLayers(ls, ftl)
    ELSE ls

\* Lines 48-66.
Freeze ==
    /\ pc = "freeze"
    /\ IF UnknownLayer(layers, first_trainable_layer)
       THEN /\ Raise("Exception")
            /\ UNCHANGED layers
       ELSE /\ layers' = Frozen(layers, first_trainable_layer)
            /\ pc' = "metrics"
            /\ UNCHANGED exc
    /\ UNCHANGED <<layers0, fs, first_trainable_layer, metrics_dict, metric,
                   nb_epoch, steps, best_value, metrics, compiled, schedule,
                   fit_raised, calls, phases, stdout, ret, pt_in, pt_out>>

\* Lines 69-75: optimizer, then metric name and comparison mode.
ResolveMetrics ==
    /\ pc = "metrics"
    /\ phases' = Append(phases, "Compiling")
    /\ IF Truthy(metrics_dict)
       THEN IF metric \in DOMAIN metrics_dict.v
            THEN /\ best_value' = PyStr(metrics_dict.v[metric].best_value)
                 /\ metrics' = PyStr(metrics_dict.v[metric].name)
                 /\ pc' = "compile"
                 /\ UNCHANGED exc
            ELSE /\ Raise("KeyError")
                 /\ UNCHANGED <<best_value, metrics>>
       ELSE /\ metrics' = PyStr(metric)
            /\ pc' = "compile"
            /\ UNCHANGED <<best_value, exc>>
    /\ UNCHANGED <<layers, layers0, fs, first_trainable_layer, metrics_dict,
                   metric, nb_epoch, steps, compiled, schedule, fit_raised,
                   calls, stdout, ret, pt_in, pt_out>>

\* Lines 78-79.
Compile ==
    /\ pc = "compile"
    /\ compiled' = metrics
    /\ calls' = Append(calls, "compile")
    /\ pc' = "callbacks"
    /\ UNCHANGED <<layers, layers0, fs, first_trainable_layer, metrics_dict,
                   metric, nb_epoch, steps, best_value, metrics, schedule,
                   fit_raised, phases, stdout, ret, exc, pt_in, pt_out>>

\* Lines 83-108.  Reading best_value at line 88 raises UnboundLocalError when
\* line 72 has not run.  nb_epoch and len(train_batch_gen) are first read here.
BuildCallbacks ==
    /\ pc = "callbacks"
    /\ IF best_value = Unbound
       THEN /\ Raise("UnboundLocalError")
            /\ UNCHANGED <<nb_epoch, steps, schedule>>
       ELSE /\ \E s \in 0..MaxSteps, n \in 0..MaxEpoch :
                /\ steps' = s
                /\ nb_epoch' = n
                /\ schedule' = [total_steps |-> TotalSteps(s, n),
                                warmup_steps |-> WarmupSteps(s, n)]
            /\ pc' = "fit"
            /\ UNCHANGED exc
    /\ UNCHANGED <<layers, layers0, fs, first_trainable_layer, metrics_dict,
                   metric, best_value, metrics, compiled, fit_raised, calls,
                   phases, stdout, ret, pt_in, pt_out>>

CaughtAny(e) == TRUE

\* Line 122: the only except clause.
Caught(e) == e = "KeyboardInterrupt"

\* Lines 111-122: model.fit runs to the end, or raises.  The TensorBoard
\* callback of line 83 writes its event files under "logs" while fit runs.
Fit ==
    /\ pc = "fit"
    /\ phases' = Append(phases, "Training")
    /\ calls' = Append(calls, "fit")
    /\ fs' = fs \cup {LogsDir}
    /\ \E o \in FitOutcomes :
        IF o = "ok"
        THEN /\ pc' = "completed"
             /\ UNCHANGED <<fit_raised, exc>>
        ELSE /\ fit_raised' = o
             /\ IF Caught(o)
                THEN /\ pc' = "interrupted"
                     /\ UNCHANGED exc
                ELSE Raise(o)
    /\ UNCHANGED <<layers, layers0, first_trainable_layer, metrics_dict, metric,
                   nb_epoch, steps, best_value, metrics, compiled, schedule,
                   stdout, ret, pt_in, pt_out>>

\* shutil.copytree(src, dst) raises unless src exists and dst does not.
CopyTreeError(files, src, dst) ==
    IF src \notin files THEN "FileNotFoundError"
    ELSE IF dst \in files THEN "FileExistsError"
    ELSE ""

InterruptedCopyFirst ==
    /\ pc = "interrupted"
    /\ phases' = Append(phases, "Interrupted")
    /\ calls' = calls \o <<"copytree", "save", "return">>
    /\ fs' = fs \cup {SessionLogs, SaveWeightsNameCtrlc(metric)}
    /\ ret' = SaveWeightsNameCtrlc(metric)
    /\ pc' = "returned"
    /\ UNCHANGED <<layers, layers0, first_trainable_layer, metrics_dict, metric,
                   nb_epoch, steps, best_value, metrics, compiled, schedule,
                   fit_raised, stdout, exc, pt_in, pt_out>>

\* Lines 123-126: save the weights, copy the logs, return.
Interrupted ==
    /\ pc = "interrupted"
    /\ phases' = Append(phases, "Interrupted")
    /\ LET saved == fs \cup {SaveWeightsNameCtrlc(metric)}
           err == CopyTreeError(saved, LogsDir, SessionLogs)
       IN IF err = ""
          THEN /\ calls' = calls \o <<"save", "copytree", "return">>
               /\ fs' = saved \cup {SessionLogs}
               /\ ret' = SaveWeightsNameCtrlc(metric)
               /\ pc' = "returned"
               /\ UNCHANGED exc
          ELSE /\ calls' = calls \o <<"save", "copytree">>
               /\ fs' = saved
               /\ Raise(err)
               /\ UNCHANGED ret
    /\ UNCHANGED <<layers, layers0, first_trainable_layer, metrics_dict, metric,
                   nb_epoch, steps, best_value, metrics, compiled, schedule,
                   fit_raised, stdout, pt_in, pt_out>>

CompletedNoCopy ==
    /\ pc = "completed"
    /\ phases' = Append(phases, "Completed")
    /\ \E t \in ElapsedSamples : stdout' = PrintTime(t)
    /\ calls' = calls \o <<"print_time", "return">>
    /\ ret' = SaveWeightsName(metric)
    /\ pc' = "returned"
    /\ UNCHANGED <<layers, layers0, fs, first_trainable_layer, metrics_dict,
                   metric, nb_epoch, steps, best_value, metrics, compiled,
                   schedule, fit_raised, exc, pt_in, pt_out>>

\* Lines 128-130: copy the logs, print the elapsed time, return.
Completed ==
    /\ pc = "completed"
    /\ phases' = Append(phases, "Completed")
    /\ LET err == CopyTreeError(fs, LogsDir, SessionLogs)
       IN IF err = ""
          THEN /\ fs' = fs \cup {SessionLogs}
               /\ \E t \in ElapsedSamples : stdout' = PrintTime(t)
               /\ calls' = calls \o <<"copytree", "print_time", "return">>
               /\ ret' = SaveWeightsName(metric)
               /\ pc' = "returned"
               /\ UNCHANGED exc
          ELSE /\ calls' = Append(calls, "copytree")
               /\ Raise(err)
               /\ UNCHANGED <<fs, stdout, ret>>
    /\ UNCHANGED <<layers, layers0, first_trainable_layer, metrics_dict, metric,
                   nb_epoch, steps, best_value, metrics, compiled, schedule,
                   fit_raised, pt_in, pt_out>>

Next ==
    \/ Call
    \/ Setup
    \/ Freeze
    \/ ResolveMetrics
    \/ Compile
    \/ BuildCallbacks
    \/ Fit
    \/ Interrupted
    \/ Completed

Spec == Init /\ [][Next]_vars

(* ---------------------- _print_time on its own ------------------------- *)
InitPrintTime ==
    /\ pc = "print_time"
    /\ layers = <<>>
    /\ layers0 = <<>>
    /\ fs = {}
    /\ Locals0
    /\ pt_in \in 0..(MaxSeconds * TicksPerSecond)
    /\ pt_out = ""

\* Lines 132-136.
CallPrintTime ==
    /\ pc = "print_time"
    /\ pt_out' = PrintTime(pt_in)
    /\ pc' = "printed"
    /\ UNCHANGED <<layers, layers0, fs, first_trainable_layer, metrics_dict,
                   metric, nb_epoch, steps, best_value, metrics, compiled,
                   schedule, fit_raised, calls, phases, stdout, ret, exc, pt_in>>

NextPrintTime == CallPrintTime

SpecPrintTime == InitPrintTime /\ [][NextPrintTime]_vars

(* ============================= properties ============================== *)
\* The freezing step (lines 48-62) has run and did not raise.
AfterFreeze == pc = "metrics" \/ Len(phases) >= 2

\* i is the position of the first layer named by first_trainable_layer.
IsFirstNamed(i) ==
    /\ first_trainable_layer.t = "str"
    /\ layers0[i].name = first_trainable_layer.v
    /\ \A j \in 1..(i - 1) : layers0[j].name # first_trainable_layer.v

NoLayerNamed ==
    \A i \in 1..Len(layers0) :
        first_trainable_layer.t = "str" => layers0[i].name # first_trainable_layer.v

\* C1 as stated: after the freezing step every layer before the first layer
\* named first_trainable_layer is non-trainable and every layer from it onward
\* is trainable.
C1_FromNamedLayerOnwardTrainable ==
    AfterFreeze =>
        \A k \in 1..Len(layers0) :
            IsFirstNamed(k) =>
                \A i \in 1..Len(layers) :
                    layers[i].trainable = (i >= k)

\* C1 amended: after the freezing step every layer before the first layer
\* named first_trainable_layer is non-trainable and every layer from it onward
\* has the trainable flag it had when train was called.
C1_FreezesBeforeNamedLayerOnly ==
    AfterFreeze =>
        /\ Len(layers) = Len(layers0)
        /\ \A k \in 1..Len(layers0) :
            IsFirstNamed(k) =>
                \A i \in 1..Len(layers) :
                    /\ layers[i].name = layers0[i].name
                    /\ i < k => layers[i].trainable = FALSE
                    /\ i >= k => layers[i].trainable = layers0[i].trainable

C1_Witness ==
    /\ pc = "metrics"
    /\ Len(layers) = 3
    /\ IsFirstNamed(2)
    /\ layers0[1].trainable
    /\ ~layers[1].trainable
    /\ layers[2].trainable
    /\ layers[3].trainable

\* C2: with first_trainable_layer None or falsy every layer's trainable flag
\* after the freezing step is what it was before the call.
C2_FalsyNameChangesNoFlag ==
    (AfterFreeze /\ first_trainable_layer \in {PyNone, PyStr("")}) =>
        layers = layers0

C2_Witness ==
    /\ pc = "metrics"
    /\ first_trainable_layer = PyStr("")
    /\ Len(layers) = 2
    /\ layers[1].trainable
    /\ ~layers[2].trainable

\* C3: a non-empty first_trainable_layer that names no layer makes the call
\* raise before compilation: compile is not called, no callback is built
\* and fit is not invoked.
C3_UnknownLayerRaisesBeforeCompile ==
    ( /\ first_trainable_layer.t = "str"
      /\ first_trainable_layer.v # ""
      /\ NoLayerNamed
      /\ pc \notin {"idle", "setup", "freeze"} ) =>
        /\ pc = "raised"
        /\ exc \in {"Exception", "FileExistsError"}
        /\ calls = <<"makedirs">>
        /\ compiled = Unbound
        /\ schedule = NoSchedule
        /\ phases = <<"Setup">>

C3_Witness ==
    /\ pc = "raised"
    /\ exc = "Exception"
    /\ first_trainable_layer = PyStr("flatten")
    /\ Len(layers) = 2
    /\ compiled = Unbound

\* The last n framework calls.
LastCalls(n) ==
    IF Len(calls) < n THEN <<>> ELSE SubSeq(calls, Len(calls) - n + 1, Len(calls))

EndsWith(str, suffix) ==
    /\ Len(str) >= Len(suffix)
    /\ SubSeq(str, Len(str) - Len(suffix) + 1, Len(str)) = suffix

C5_ReturnFollowsPhasesAndLogCopy ==
    pc = "returned" =>
        /\ Len(phases) = 4
        /\ SubSeq(phases, 1, 3) = <<"Setup", "Compiling", "Training">>
        /\ phases[4] \in {"Interrupted", "Completed"}
        /\ \E i \in 1..Len(calls) :
            /\ calls[i] = "copytree"
            /\ calls[Len(calls)] = "return"
            /\ i < Len(calls)
        /\ "project/2020-01-01_00-00-00/logs" \in fs
        /\ phases[4] = "Completed" =>
            ret = "project/2020-01-01_00-00-00/net_best_" \o metric \o ".h5"
        /\ phases[4] = "Interrupted" =>
            ret = "project/2020-01-01_00-00-00/net_best_" \o metric \o "_ctrlc.h5"

C5_Witness ==
    /\ pc = "returned"
    /\ phases = <<"Setup", "Compiling", "Training", "Completed">>
    /\ ret = "project/2020-01-01_00-00-00/net_best_val_accuracy.h5"
    /\ calls = <<"makedirs", "compile", "fit", "copytree", "print_time", "return">>

\* C6: an error raised by fit other than a user interrupt leaves train
\* unhandled: no value is returned, the interrupt-weights file is not saved
\* and the logs are not copied into the session folder.
C6_OtherFitErrorsPropagate ==
    fit_raised \notin {"", "KeyboardInterrupt"} =>
        /\ pc = "raised"
        /\ exc = fit_raised
        /\ ret = ""
        /\ calls[Len(calls)] = "fit"
        /\ \A f \in fs : ~EndsWith(f, "_ctrlc.h5")
        /\ "project/2020-01-01_00-00-00/logs" \notin fs

C6_Witness ==
    /\ fit_raised = "RuntimeError"
    /\ pc = "raised"
    /\ exc = "RuntimeError"
    /\ "logs" \in fs

ScheduleBuilt == schedule # NoSchedule

\* C7: the schedule is configured with total steps = s * n and warm-up steps
\* = s * min(3, n - 1), s = len(train_batch_gen), n = nb_epoch; s = 10 and
\* n = 5 give warm-up steps 30 and total steps 50.
C7_ScheduleStepCounts ==
    ScheduleBuilt =>
        /\ schedule.total_steps = steps * nb_epoch
        /\ nb_epoch - 1 <= 3 => schedule.warmup_steps = steps * (nb_epoch - 1)
        /\ nb_epoch - 1 >= 3 => schedule.warmup_steps = steps * 3
        /\ (steps = 10 /\ nb_epoch = 5) =>
            schedule = [total_steps |-> 50, warmup_steps |-> 30]

C7_Witness ==
    /\ pc = "fit"
    /\ steps = 10
    /\ nb_epoch = 5
    /\ schedule = [total_steps |-> 50, warmup_steps |-> 30]

\* C8: _print_time reports <int(t)>-seconds to train when t < 60 and
\* <int(t/60)>-mins to train otherwise: 45 gives "45-seconds to train", 125
\* gives "2-mins to train" and 60 gives "1-mins to train".
C8_PrintTimeReport ==
    pc = "printed" =>
        /\ pt_in < 60 * TicksPerSecond =>
            \E k \in 0..59 :
                /\ k * TicksPerSecond <= pt_in
                /\ pt_in < (k + 1) * TicksPerSecond
                /\ pt_out = FormatD(k) \o "-seconds to train"
        /\ pt_in >= 60 * TicksPerSecond =>
            \E k \in 1..MaxSeconds :
                /\ k * 60 * TicksPerSecond <= pt_in
                /\ pt_in < (k + 1) * 60 * TicksPerSecond
                /\ pt_out = FormatD(k) \o "-mins to train"
        /\ pt_in = 45 * TicksPerSecond => pt_out = "45-seconds to train"
        /\ pt_in = 125 * TicksPerSecond => pt_out = "2-mins to train"
        /\ pt_in = 60 * TicksPerSecond => pt_out = "1-mins to train"

C8_Witness ==
    /\ pc = "printed"
    /\ pt_in = 60 * TicksPerSecond
    /\ pt_out = "1-mins to train"

\* C9: with metrics_dict None or empty the metric passed to compile is the
\* monitor string, the comparison mode is assigned when the callbacks are
\* assembled, and the call goes on to the Training phase.
C9_DefaultMetricsReachTraining ==
    (pc # "idle" /\ metrics_dict \in {PyNone, PyDict(<<>>)}) =>
        /\ compiled # Unbound => compiled = PyStr(metric)
        /\ pc = "callbacks" => best_value # Unbound
        /\ pc = "raised" => exc \in {"FileExistsError", "Exception"}

\* C10: for s >= 0 and nb_epoch >= 1 the configured warm-up step count lies
\* between 0 and the total step count; nb_epoch = 1 gives 0 warm-up steps.
C10_WarmupWithinTotal ==
    (ScheduleBuilt /\ steps >= 0 /\ nb_epoch >= 1) =>
        /\ 0 <= schedule.warmup_steps
        /\ schedule.warmup_steps <= schedule.total_steps
        /\ nb_epoch = 1 => schedule.warmup_steps = 0

C10_Witness ==
    /\ pc = "fit"
    /\ nb_epoch = 1
    /\ steps = MaxSteps
    /\ schedule = [total_steps |-> MaxSteps, warmup_steps |-> 0]

====
